---- MODULE Spec2Model ----
(***************************************************************************)
(* A model of pluginfx: symbol lookup and error normalisation (plugin.go), *)
(* the in-memory symbol table (symbolMap.go), the symbol binding           *)
(* orchestrator Symbols.Load and the constructor/target classifiers        *)
(* (constructors.go).                                                      *)
(*                                                                         *)
(* Go values are modelled by records:                                      *)
(*   an interface{} value   [dyn |-> "nil" | "func" | "ptr" | "int" |      *)
(*                                   "reflect.Value", ...]                 *)
(*   a reflect.Value        [valid |-> BOOLEAN, x |-> the value it holds]  *)
(*   an error               [type |-> "nil" | "MissingSymbolError" | ...]  *)
(*   an fx.Option           [opt |-> "Provide" | "Invoke" | "Annotated" |  *)
(*                                   "Error", ...]                         *)
(***************************************************************************)
EXTENDS Integers, Sequences, FiniteSets, TLC

\* ---------------------------------------------------------------- bounds
MaxOut == 3      \* the longest output list of a function symbol
MaxNames == 2    \* the longest request list handed to Load / Provide

\* ------------------------------------------------------------- universes
SymNames == {"a", "b"}     \* the names that are asked for
HeldNames == {"a"}         \* the names a source may hold; "b" is always missing
ErrType == "error"
OutTypes == {"T", ErrType}

OutShapes == UNION {[1..k -> OutTypes] : k \in 0..MaxOut}

Fn(in, out) == [dyn |-> "func", in |-> in, out |-> out]
Ptr(n) == [dyn |-> "ptr", elem |-> n]
IntVal(n) == [dyn |-> "int", elem |-> n]
NilIface == [dyn |-> "nil"]
NilPtr == [dyn |-> "nilptr"]

\* the symbols a plugin or a SymbolMap can hold: functions and non-nil pointers
FuncSymbols ==
    {Fn(<<>>, o) : o \in OutShapes}
        \cup {Fn(<<ErrType>>, <<"T">>), Fn(<<"T">>, <<ErrType>>)}
PtrSymbols == {Ptr(123)}
SymbolValues == FuncSymbols \cup PtrSymbols

\* the values a caller can hand to SymbolMap.Set
SetValues == SymbolValues \cup {IntVal(123), NilIface, NilPtr}

Tables == UNION {[D -> SymbolValues] : D \in SUBSET HeldNames}
EmptyTable == << >>

\* ---------------------------------------------------------------- errors
NilErr == [type |-> "nil"]
ErrorString(n) == [type |-> "errorString", Name |-> n]
MissingSymbolError(n, cause) == [type |-> "MissingSymbolError", Name |-> n, Err |-> cause]
InvalidTargetError(n, t) == [type |-> "InvalidTargetError", Name |-> n, Type |-> t]
InvalidConstructorError(n, t) == [type |-> "InvalidConstructorError", Name |-> n, Type |-> t]
NotAFunctionError(n) == [type |-> "notAFunction", Name |-> n]
InvalidNameError(t) == [type |-> "invalidName", Of |-> t]

\* ---------------------------------------------------------- reflect.Value
ZeroValue == [valid |-> FALSE]
ValueOf(x) == IF x.dyn = "nil" THEN ZeroValue ELSE [valid |-> TRUE, x |-> x]
Box(v) == [dyn |-> "reflect.Value", v |-> v]

Kind(v) ==
    IF ~v.valid THEN "Invalid"
    ELSE CASE v.x.dyn = "func" -> "Func"
           [] v.x.dyn \in {"ptr", "nilptr"} -> "Ptr"
           [] v.x.dyn = "int" -> "Int"
           [] v.x.dyn = "reflect.Value" -> "Struct"

TypeOf(x) ==
    CASE x.dyn = "func" -> [kind |-> "Func", in |-> x.in, out |-> x.out]
      [] x.dyn \in {"ptr", "nilptr"} -> [kind |-> "Ptr", in |-> <<>>, out |-> <<>>]
      [] x.dyn = "int" -> [kind |-> "Int", in |-> <<>>, out |-> <<>>]
      [] x.dyn = "reflect.Value" -> [kind |-> "Struct", in |-> <<>>, out |-> <<>>]

NumOut(t) == Len(t.out)

VARIABLES
    kind,    \* which Plugin implementation the source is: "SymbolMap" or "plugin"
    table,   \* the symbols the source holds: name -> symbol
    pc,      \* "ready": the source is built; "done": one operation has returned
    last     \* the operation that was called, its arguments and what it returned

vars == <<kind, table, pc, last>>

\* ------------------------------------------------------ the symbol sources
\* SymbolMap.Lookup: the stored symbol, or MissingSymbolError{Name: name}
SymbolMapLookup(t, name) ==
    IF name \in DOMAIN t
    THEN [symbol |-> t[name], err |-> NilErr]
    ELSE [symbol |-> NilIface, err |-> MissingSymbolError(name, NilErr)]

\* (*plugin.Plugin).Lookup: the exported symbol, or a generated error
PluginLookup(t, name) ==
    IF name \in DOMAIN t
    THEN [symbol |-> t[name], err |-> NilErr]
    ELSE [symbol |-> NilIface, err |-> ErrorString(name)]

\* the Lookup of an implementation of Plugin that fails for a reason other
\* than a symbol that is not there
OtherError == [type |-> "otherError"]
FailingLookup(t, name) == [symbol |-> NilIface, err |-> OtherError]

\* p.Lookup(name) through the Plugin interface
SourceLookup(k, t, name) ==
    CASE k = "SymbolMap" -> SymbolMapLookup(t, name)
      [] k = "plugin" -> PluginLookup(t, name)
      [] OTHER -> FailingLookup(t, name)

\* errors.As(err, &mse) for mse of type *MissingSymbolError
RECURSIVE IsMissingSymbolError(_)
IsMissingSymbolError(err) ==
    CASE err.type = "nil" -> FALSE
      [] err.type = "MissingSymbolError" -> TRUE
      [] err.type = "OpenError" -> IsMissingSymbolError(err.Err)
      [] OTHER -> FALSE

\* Lookup as it would be if the source's error were returned as it came
Lookup_NotNormalized(k, t, name) ==
    LET r == SourceLookup(k, t, name)
    IN  IF r.err = NilErr
        THEN [value |-> Box(ValueOf(r.symbol)), err |-> NilErr]
        ELSE [value |-> Box(ZeroValue), err |-> r.err]

\* Lookup as it would be if every failure of the source were wrapped
Lookup_AlwaysWrapped(k, t, name) ==
    LET r == SourceLookup(k, t, name)
    IN  IF r.err = NilErr
        THEN [value |-> Box(ValueOf(r.symbol)), err |-> NilErr]
        ELSE [value |-> Box(ZeroValue), err |-> MissingSymbolError(name, r.err)]

\* Lookup as it would be if only the not-found error of the plugin package
\* were wrapped
Lookup_WrapsNotFoundOnly(k, t, name) ==
    LET r == SourceLookup(k, t, name)
    IN  IF r.err = NilErr
        THEN [value |-> Box(ValueOf(r.symbol)), err |-> NilErr]
        ELSE [value |-> Box(ZeroValue),
              err |-> IF r.err.type = "errorString"
                      THEN MissingSymbolError(name, r.err)
                      ELSE r.err]

\* Lookup(p, name): the returned interface{} holds the local reflect.Value
Lookup(k, t, name) ==
    LET r == SourceLookup(k, t, name)
    IN  IF r.err = NilErr
        THEN [value |-> Box(ValueOf(r.symbol)), err |-> NilErr]
        ELSE [value |-> Box(ZeroValue),
              err |-> IF ~IsMissingSymbolError(r.err)
                      THEN MissingSymbolError(name, r.err)
                      ELSE r.err]

\* ------------------------------------------------------------ SymbolMap
\* SymbolMap.Set: nil and nil pointers panic, functions and pointers are
\* stored as is, anything else is stored as a pointer to a copy
SetPanics(value) == value.dyn \in {"nil", "nilptr"}

SetStored(value) ==
    IF value.dyn \in {"func", "ptr"} THEN value ELSE Ptr(value.elem)

Set(name, value) ==
    /\ pc = "ready"
    /\ kind = "SymbolMap"
    /\ IF SetPanics(value)
       THEN /\ pc' = "done"
            /\ last' = [op |-> "Set", name |-> name, panicked |-> TRUE]
            /\ UNCHANGED <<kind, table>>
       ELSE /\ table' = [n \in DOMAIN table \cup {name} |->
                            IF n = name THEN SetStored(value) ELSE table[n]]
            /\ UNCHANGED <<kind, pc, last>>

Del(name) ==
    /\ pc = "ready"
    /\ kind = "SymbolMap"
    /\ table' = [n \in DOMAIN table \ {name} |-> table[n]]
    /\ UNCHANGED <<kind, pc, last>>

\* ---------------------------------------------------------- fx options
FxProvide(f) == [opt |-> "Provide", target |-> f]
FxInvoke(f) == [opt |-> "Invoke", target |-> f]
FxAnnotated(name, group, f) ==
    [opt |-> "Annotated", Name |-> name, Group |-> group, target |-> f]
FxError(e) == [opt |-> "Error", err |-> e]

\* ------------------------------------------------------- binding requests
\* an element of Symbols.Names / Constructors.Plugin: a string, an Annotated,
\* or a value of some other type
NameReq(n) == [req |-> "string", name |-> n]
AnnotatedReq(name, group, tgt) ==
    [req |-> "Annotated", Name |-> name, Group |-> group, Target |-> tgt]
OtherReq == [req |-> "int"]

Requests ==
    {NameReq(n) : n \in SymNames}
        \cup {AnnotatedReq("X", "", n) : n \in SymNames}
        \cup {AnnotatedReq("", "G", n) : n \in SymNames}
        \cup {OtherReq}
RequestLists == UNION {[1..k -> Requests] : k \in 0..MaxNames}

\* ------------------------------------------------------------ Symbols.Load
\* lookupFunc as it would be if IgnoreMissing were not consulted
lookupFunc_MissingAlwaysFatal(ignoreMissing, k, t, n, o) ==
    LET r == Lookup(k, t, n)
    IN  IF IsMissingSymbolError(r.err)
        THEN [v |-> ZeroValue, o |-> Append(o, FxError(r.err))]
        ELSE LET sv == ValueOf(r.value)
             IN  IF Kind(sv) # "Func"
                 THEN [v |-> ZeroValue, o |-> Append(o, FxError(NotAFunctionError(n)))]
                 ELSE [v |-> sv, o |-> o]

\* lookupFunc as it would be if IgnoreMissing also covered a wrong shape
lookupFunc_ShapeIgnorable(ignoreMissing, k, t, n, o) ==
    LET r == Lookup(k, t, n)
    IN  IF IsMissingSymbolError(r.err)
        THEN [v |-> ZeroValue,
              o |-> IF ~ignoreMissing THEN Append(o, FxError(r.err)) ELSE o]
        ELSE LET sv == ValueOf(r.value)
             IN  IF Kind(sv) # "Func"
                 THEN [v |-> ZeroValue,
                       o |-> IF ~ignoreMissing
                             THEN Append(o, FxError(NotAFunctionError(n)))
                             ELSE o]
                 ELSE [v |-> sv, o |-> o]

\* s.lookupFunc(p, n, o): the function value (or the zero Value) and the options
lookupFunc(ignoreMissing, k, t, n, o) ==
    LET r == Lookup(k, t, n)
    IN  IF IsMissingSymbolError(r.err)
        THEN [v |-> ZeroValue,
              o |-> IF ~ignoreMissing THEN Append(o, FxError(r.err)) ELSE o]
        ELSE LET sv == ValueOf(r.value)
             IN  IF Kind(sv) # "Func"
                 THEN [v |-> ZeroValue, o |-> Append(o, FxError(NotAFunctionError(n)))]
                 ELSE [v |-> sv, o |-> o]

\* s.constructorOrInvoke(v, o)
constructorOrInvoke(v, o) ==
    LET vt == TypeOf(v.x)
    IN  IF \E i \in 1..NumOut(vt) : vt.out[i] # ErrType
        THEN Append(o, FxProvide(v.x))
        ELSE Append(o, FxInvoke(v.x))

\* s.target(a, v, o)
target(a, v, o) ==
    LET vt == TypeOf(v.x)
    IN  IF \/ NumOut(vt) < 1 \/ NumOut(vt) > 3
           \/ (NumOut(vt) = 1 /\ vt.out[1] = ErrType)
           \/ (NumOut(vt) = 2 /\ vt.out[1] = ErrType /\ vt.out[2] = ErrType)
           \/ (NumOut(vt) = 2 /\ vt.out[1] # ErrType /\ vt.out[2] # ErrType)
        THEN Append(o, FxError(InvalidTargetError(a.Target, vt)))
        ELSE Append(o, FxAnnotated(a.Name, a.Group, v.x))

\* the loop body of Symbols.Load as it would be with an empty default case
LoadOne_OtherDropped(ignoreMissing, k, t, n, options) ==
    CASE n.req = "string" ->
            LET r == lookupFunc(ignoreMissing, k, t, n.name, options)
            IN  IF r.v.valid THEN constructorOrInvoke(r.v, r.o) ELSE r.o
      [] n.req = "Annotated" ->
            LET r == lookupFunc(ignoreMissing, k, t, n.Target, options)
            IN  IF r.v.valid THEN target(n, r.v, r.o) ELSE r.o
      [] OTHER -> options

\* one iteration of the loop of Symbols.Load
LoadOne(ignoreMissing, k, t, n, options) ==
    CASE n.req = "string" ->
            LET r == lookupFunc(ignoreMissing, k, t, n.name, options)
            IN  IF r.v.valid THEN constructorOrInvoke(r.v, r.o) ELSE r.o
      [] n.req = "Annotated" ->
            LET r == lookupFunc(ignoreMissing, k, t, n.Target, options)
            IN  IF r.v.valid THEN target(n, r.v, r.o) ELSE r.o
      [] OTHER -> Append(options, FxError(InvalidNameError(n.req)))

\* the loop of Symbols.Load as it would be if it returned at the first Fatal
RECURSIVE LoadLoop_StopAtFirstFatal(_, _, _, _, _, _, _)
LoadLoop_StopAtFirstFatal(ignoreMissing, k, t, names, i, options, marks) ==
    IF i > Len(names) \/ (\E j \in 1..Len(options) : options[j].opt = "Error")
    THEN [options |-> options, marks |-> marks]
    ELSE LoadLoop_StopAtFirstFatal(ignoreMissing, k, t, names, i + 1,
             LoadOne(ignoreMissing, k, t, names[i], options),
             Append(marks, Len(LoadOne(ignoreMissing, k, t, names[i], options))))

\* Symbols{Names, IgnoreMissing}.Load(p): the options in the order they were
\* appended; marks[i] is the number of options after the i-th element of Names
RECURSIVE LoadLoop(_, _, _, _, _, _, _)
LoadLoop(ignoreMissing, k, t, names, i, options, marks) ==
    IF i > Len(names)
    THEN [options |-> options, marks |-> marks]
    ELSE LET o == LoadOne(ignoreMissing, k, t, names[i], options)
         IN  LoadLoop(ignoreMissing, k, t, names, i + 1, o, Append(marks, Len(o)))

Load(names, ignoreMissing, k, t) ==
    LoadLoop(ignoreMissing, k, t, names, 1, <<>>, <<>>)

\* --------------------------------------------------------- constructors.go
LookupConstructor(k, t, name) ==
    LET r == Lookup(k, t, name)
    IN  IF r.err = NilErr
        THEN LET value == ValueOf(r.value)
                 valueType == TypeOf(value.x)
             IN  IF /\ valueType.kind = "Func"
                    /\ NumOut(valueType) > 0
                    /\ \E i \in 1..NumOut(valueType) : valueType.out[i] # ErrType
                 THEN [value |-> value, err |-> NilErr]
                 ELSE [value |-> value, err |-> InvalidConstructorError(name, valueType)]
        ELSE [value |-> ZeroValue, err |-> r.err]

LookupTarget(k, t, name) ==
    LET r == Lookup(k, t, name)
    IN  IF r.err = NilErr
        THEN LET value == ValueOf(r.value)
                 valueType == TypeOf(value.x)
             IN  IF /\ valueType.kind = "Func"
                    /\ \/ (NumOut(valueType) = 1 /\ valueType.out[1] # ErrType)
                       \/ (NumOut(valueType) = 2 /\ valueType.out[1] # ErrType
                                                 /\ valueType.out[2] = ErrType)
                       \/ (NumOut(valueType) = 2 /\ valueType.out[1] = ErrType
                                                 /\ valueType.out[2] # ErrType)
                 THEN [value |-> value, err |-> NilErr]
                 ELSE [value |-> value, err |-> InvalidTargetError(name, valueType)]
        ELSE [value |-> ZeroValue, err |-> r.err]

\* ValidateConstructorSymbol(name, value) of the earlier revision: the loop
\* runs over the outputs but reads vt.In(i), which panics when i >= NumIn
RECURSIVE ValidateLoop(_, _, _)
ValidateLoop(name, vt, i) ==
    IF i > NumOut(vt)
    THEN [panicked |-> FALSE, err |-> InvalidConstructorError(name, vt)]
    ELSE IF i > Len(vt.in)
         THEN [panicked |-> TRUE, err |-> NilErr]
         ELSE IF vt.in[i] # ErrType
              THEN [panicked |-> FALSE, err |-> NilErr]
              ELSE ValidateLoop(name, vt, i + 1)

ValidateConstructorSymbol(name, value) ==
    LET vt == TypeOf(value.x)
    IN  IF vt.kind = "Func" /\ NumOut(vt) > 0
        THEN ValidateLoop(name, vt, 1)
        ELSE [panicked |-> FALSE, err |-> InvalidConstructorError(name, vt)]

\* one iteration of the loop of Constructors.Provide
ProvideOne(ignoreMissing, k, t, v, options) ==
    LET r == CASE v.req = "string" -> LookupConstructor(k, t, v.name)
               [] v.req = "Annotated" -> LookupTarget(k, t, v.Target)
               [] OTHER -> [value |-> ZeroValue, err |-> InvalidNameError(v.req)]
        o1 == IF r.err # NilErr THEN options
              ELSE IF v.req = "string"
                   THEN Append(options, FxProvide(r.value.x))
                   ELSE Append(options, FxAnnotated(v.Name, v.Group, r.value.x))
        missing == IsMissingSymbolError(r.err)
    IN  IF (missing /\ ~ignoreMissing) \/ (~missing /\ r.err # NilErr)
        THEN Append(o1, FxError(r.err))
        ELSE o1

\* Constructors{Plugin, IgnoreMissing}.Provide(s)
RECURSIVE ProvideLoop(_, _, _, _, _, _, _)
ProvideLoop(ignoreMissing, k, t, list, i, options, marks) ==
    IF i > Len(list)
    THEN [options |-> options, marks |-> marks]
    ELSE LET o == ProvideOne(ignoreMissing, k, t, list[i], options)
         IN  ProvideLoop(ignoreMissing, k, t, list, i + 1, o, Append(marks, Len(o)))

ConstructorsProvide(list, ignoreMissing, k, t) ==
    ProvideLoop(ignoreMissing, k, t, list, 1, <<>>, <<>>)

\* ------------------------------------------------------------- operations
DoLookup(name) ==
    /\ pc = "ready"
    /\ pc' = "done"
    /\ LET r == Lookup(kind, table, name)
       IN  last' = [op |-> "Lookup", name |-> name, value |-> r.value, err |-> r.err]
    /\ UNCHANGED <<kind, table>>

DoLoad(names, ignoreMissing) ==
    /\ pc = "ready"
    /\ pc' = "done"
    /\ LET r == Load(names, ignoreMissing, kind, table)
       IN  last' = [op |-> "Load", names |-> names, IgnoreMissing |-> ignoreMissing,
                    batch |-> r.options, marks |-> r.marks]
    /\ UNCHANGED <<kind, table>>

DoConstructorsProvide(list, ignoreMissing) ==
    /\ pc = "ready"
    /\ pc' = "done"
    /\ LET r == ConstructorsProvide(list, ignoreMissing, kind, table)
       IN  last' = [op |-> "Provide", names |-> list, IgnoreMissing |-> ignoreMissing,
                    batch |-> r.options, marks |-> r.marks]
    /\ UNCHANGED <<kind, table>>

DoLookupConstructor(name) ==
    /\ pc = "ready"
    /\ pc' = "done"
    /\ LET r == LookupConstructor(kind, table, name)
       IN  last' = [op |-> "LookupConstructor", name |-> name, rv |-> r.value, err |-> r.err]
    /\ UNCHANGED <<kind, table>>

DoLookupTarget(name) ==
    /\ pc = "ready"
    /\ pc' = "done"
    /\ LET r == LookupTarget(kind, table, name)
       IN  last' = [op |-> "LookupTarget", name |-> name, rv |-> r.value, err |-> r.err]
    /\ UNCHANGED <<kind, table>>

DoValidateConstructorSymbol(name) ==
    /\ pc = "ready"
    /\ name \in DOMAIN table
    /\ pc' = "done"
    /\ LET r == ValidateConstructorSymbol(name, ValueOf(table[name]))
       IN  last' = [op |-> "ValidateConstructorSymbol", name |-> name,
                    panicked |-> r.panicked, err |-> r.err]
    /\ UNCHANGED <<kind, table>>

Init ==
    /\ kind \in {"SymbolMap", "plugin"}
    /\ table \in Tables
    /\ kind = "SymbolMap" => table = EmptyTable
    /\ pc = "ready"
    /\ last = [op |-> "none"]

Next ==
    \/ \E n \in HeldNames, v \in SetValues : Set(n, v)
    \/ \E n \in HeldNames : Del(n)
    \/ \E n \in SymNames : DoLookup(n)
    \/ \E l \in RequestLists, ign \in BOOLEAN : DoLoad(l, ign)
    \/ \E l \in RequestLists, ign \in BOOLEAN : DoConstructorsProvide(l, ign)
    \/ \E n \in SymNames : DoLookupConstructor(n)
    \/ \E n \in SymNames : DoLookupTarget(n)
    \/ \E n \in SymNames : DoValidateConstructorSymbol(n)

Spec == Init /\ [][Next]_vars

\* ------------------------------------------------------ reading the batch
IsLoad == last.op = "Load"
IsProvide == last.op = "Provide"
IsBatch == IsLoad \/ IsProvide

Present(n) == n \in DOMAIN table

\* the options that the i-th request of the list put into the batch
Part(i) ==
    SubSeq(last.batch, (IF i = 1 THEN 0 ELSE last.marks[i - 1]) + 1, last.marks[i])

\* the batch the operation builds for the i-th request alone
Alone(i) ==
    IF IsLoad
    THEN Load(<<last.names[i]>>, last.IgnoreMissing, kind, table).options
    ELSE ConstructorsProvide(<<last.names[i]>>, last.IgnoreMissing, kind, table).options

AllProcessed ==
    /\ Len(last.marks) = Len(last.names)
    /\ Len(last.names) > 0 => last.marks[Len(last.names)] = Len(last.batch)
    /\ \A i \in 1..Len(last.names) : Part(i) = Alone(i)

RequestedName(r) == IF r.req = "string" THEN r.name ELSE r.Target
IsSymbolRequest(r) == r.req \in {"string", "Annotated"}
MissingRequest(r) == IsSymbolRequest(r) /\ ~Present(RequestedName(r))

IsFatal(o) == o.opt = "Error"
IsFatalMissing(o, n) ==
    /\ IsFatal(o)
    /\ o.err.type = "MissingSymbolError"
    /\ o.err.Name = n

NonErrorOutputs(sym) == {i \in 1..Len(sym.out) : sym.out[i] # ErrType}
IsFunc(sym) == sym.dyn = "func"
ValidTargetShape(sym) ==
    /\ IsFunc(sym)
    /\ Len(sym.out) \in {1, 2}
    /\ Cardinality(NonErrorOutputs(sym)) = 1
ValidConstructorShape(sym) ==
    /\ IsFunc(sym)
    /\ NonErrorOutputs(sym) # {}

\* ------------------------------------------------------------------ claims

\* C1: for every name the source holds, Lookup returns exactly the value the
\* source's own Lookup returns (the stored symbol itself) and a nil error.
C1_LookupReturnsSymbol ==
    (last.op = "Lookup" /\ Present(last.name)) =>
        /\ last.err = NilErr
        /\ last.value = SourceLookup(kind, table, last.name).symbol

\* C2: for every name the source does not hold, Lookup returns a
\* MissingSymbolError whose Name is the requested name.
C2_MissingCarriesName ==
    (last.op = "Lookup" /\ ~Present(last.name)) =>
        /\ IsMissingSymbolError(last.err)
        /\ last.err.type = "MissingSymbolError"
        /\ last.err.Name = last.name

C2_Witness ==
    /\ last.op = "Lookup"
    /\ kind = "plugin"
    /\ ~Present(last.name)
    /\ last.err.Name = last.name

\* C3: a source failure that is not a MissingSymbolError is wrapped once as
\* MissingSymbolError{Name: requested name, Err: the source's error}; a source
\* failure that already is a MissingSymbolError is returned unchanged, so a
\* SymbolMap miss has a nil cause and a plugin miss has a non-nil cause.
C3_WrapOnce ==
    (last.op = "Lookup" /\ ~Present(last.name)) =>
        LET se == SourceLookup(kind, table, last.name).err
        IN  /\ se.type # "MissingSymbolError" =>
                last.err = MissingSymbolError(last.name, se)
            /\ se.type = "MissingSymbolError" => last.err = se
            /\ kind = "SymbolMap" => last.err.Err = NilErr
            /\ kind = "plugin" =>
                (last.err.Err # NilErr /\ last.err.Err.type # "MissingSymbolError")

C3_Witness ==
    /\ last.op = "Lookup"
    /\ kind = "SymbolMap"
    /\ ~Present(last.name)
    /\ last.err = MissingSymbolError(last.name, NilErr)

\* C4: Symbols.Load handles a missing symbol by policy: with IgnoreMissing the
\* request gets no entry at all, without it exactly one Fatal entry carrying
\* the MissingSymbolError; the requests that follow are still processed.
C4_MissingByPolicy ==
    IsLoad =>
        /\ AllProcessed
        /\ \A i \in 1..Len(last.names) :
              MissingRequest(last.names[i]) =>
                  IF last.IgnoreMissing
                  THEN Part(i) = <<>>
                  ELSE /\ Len(Part(i)) = 1
                       /\ IsFatalMissing(Part(i)[1], RequestedName(last.names[i]))

C4_Witness ==
    /\ IsLoad
    /\ last.IgnoreMissing
    /\ Len(last.names) = 2
    /\ MissingRequest(last.names[1])
    /\ Part(1) = <<>>
    /\ Len(Part(2)) = 1

\* C5: the batch of Symbols.Load preserves request order: the entry of each
\* request sits at the position of that request, a constructor giving a
\* provide-constructor, an annotated target a provide-annotated-target and a
\* missing name a Fatal(MissingSymbol), in exactly the order of the requests.
C5_EntryAtPosition(i) ==
    LET r == last.names[i]
    IN  /\ (r.req = "string" /\ Present(r.name) /\ ValidConstructorShape(table[r.name])) =>
              Part(i) = <<FxProvide(table[r.name])>>
        /\ (r.req = "Annotated" /\ Present(r.Target) /\ ValidTargetShape(table[r.Target])) =>
              Part(i) = <<FxAnnotated(r.Name, r.Group, table[r.Target])>>
        /\ (MissingRequest(r) /\ ~last.IgnoreMissing) =>
              (Len(Part(i)) = 1 /\ IsFatalMissing(Part(i)[1], RequestedName(r)))

C5_RequestOrder ==
    IsLoad =>
        /\ AllProcessed
        /\ \A i \in 1..Len(last.names) : C5_EntryAtPosition(i)

\* C6: an Annotated request is registered as a provide-annotated-target with
\* the descriptor's Name and Group iff its symbol is a function with 1 or 2
\* outputs of which exactly one is not the error type; every other present
\* symbol yields a Fatal entry carrying InvalidTargetError and no registration.
C6_TargetContract ==
    IsLoad =>
        \A i \in 1..Len(last.names) :
            LET r == last.names[i]
            IN  (r.req = "Annotated" /\ Present(r.Target) /\ IsFunc(table[r.Target])) =>
                    IF ValidTargetShape(table[r.Target])
                    THEN Part(i) = <<FxAnnotated(r.Name, r.Group, table[r.Target])>>
                    ELSE /\ Len(Part(i)) = 1
                         /\ IsFatal(Part(i)[1])
                         /\ Part(i)[1].err.type = "InvalidTargetError"

\* C7: for a plain name whose symbol is a function, Symbols.Load emits an
\* invoke-action exactly when every output is the error type (no outputs
\* included) and a provide-constructor exactly when some output is not.
C7_ConstructorOrInvoke ==
    IsLoad =>
        \A i \in 1..Len(last.names) :
            LET r == last.names[i]
            IN  (r.req = "string" /\ Present(r.name) /\ IsFunc(table[r.name])) =>
                    IF NonErrorOutputs(table[r.name]) = {}
                    THEN Part(i) = <<FxInvoke(table[r.name])>>
                    ELSE Part(i) = <<FxProvide(table[r.name])>>

\* C8: a present symbol is accepted as a constructor iff it is a function with
\* at least one output that is not the error type, whatever its inputs are;
\* every other present symbol is rejected with InvalidConstructorError
\* carrying the symbol name.
C8_ConstructorByOutputs ==
    (last.op \in {"LookupConstructor", "ValidateConstructorSymbol"} /\ Present(last.name)) =>
        /\ last.op = "ValidateConstructorSymbol" => ~last.panicked
        /\ IF ValidConstructorShape(table[last.name])
           THEN last.err = NilErr
           ELSE /\ last.err.type = "InvalidConstructorError"
                /\ last.err.Name = last.name

\* C9: a present symbol whose shape is wrong for the requested role is fatal
\* for both values of IgnoreMissing: a plain name whose symbol is not a
\* function, and an Annotated request whose symbol fails the target contract.
WrongShape(r) ==
    \/ r.req = "string" /\ Present(r.name) /\ ~IsFunc(table[r.name])
    \/ r.req = "Annotated" /\ Present(r.Target) /\ ~ValidTargetShape(table[r.Target])

C9_WrongShapeAlwaysFatal ==
    IsBatch =>
        \A i \in 1..Len(last.names) :
            WrongShape(last.names[i]) =>
                /\ Len(Part(i)) = 1
                /\ IsFatal(Part(i)[1])
                /\ ~IsMissingSymbolError(Part(i)[1].err)

C9_Witness ==
    /\ IsLoad
    /\ last.IgnoreMissing
    /\ Len(last.names) = 1
    /\ last.names[1].req = "string"
    /\ Present(last.names[1].name)
    /\ table[last.names[1].name] = Ptr(123)
    /\ last.batch = <<FxError(NotAFunctionError(last.names[1].name))>>

\* C10: every element of the request list that is neither a string nor an
\* Annotated produces exactly one Fatal entry, for both values of
\* IgnoreMissing, and the remaining requests are still processed.
C10_MalformedRequestFatal ==
    IsBatch =>
        /\ AllProcessed
        /\ \A i \in 1..Len(last.names) :
              ~IsSymbolRequest(last.names[i]) =>
                  /\ Len(Part(i)) = 1
                  /\ IsFatal(Part(i)[1])
                  /\ Part(i)[1].err.type = "invalidName"

C10_Witness ==
    /\ IsLoad
    /\ last.IgnoreMissing
    /\ Len(last.names) = 2
    /\ ~IsSymbolRequest(last.names[1])
    /\ IsFatal(last.batch[1])
    /\ last.batch[1].err = InvalidNameError("int")
    /\ IsSymbolRequest(last.names[2])
    /\ Present(RequestedName(last.names[2]))
    /\ Len(Part(2)) = 1

\* ------------------------------------------------------------ lifecycle.go
Ctx == "context.Context"

InvalidLifecycleError(n, t) == [type |-> "InvalidLifecycleError", Name |-> n, Type |-> t]

\* the symbols the sources of the lifecycle checks hold: the four signatures
\* LookupLifecycle names, three functions of other signatures and a pointer
AcceptedLifecycleSymbols ==
    {Fn(<<>>, <<>>), Fn(<<>>, <<ErrType>>), Fn(<<Ctx>>, <<>>), Fn(<<Ctx>>, <<ErrType>>)}
LifecycleSymbols ==
    AcceptedLifecycleSymbols
        \cup {Fn(<<"int">>, <<"bool">>), Fn(<<Ctx, Ctx>>, <<ErrType>>),
              Fn(<<Ctx>>, <<ErrType, ErrType>>), Ptr(123)}
LifecycleTables == UNION {[D -> LifecycleSymbols] : D \in SUBSET SymNames}

\* the names OnStart and OnStop can be set to; "" is the unset field
HookNames == {""} \cup SymNames
Lifecycles == [OnStart : HookNames, OnStop : HookNames, IgnoreMissing : BOOLEAN]

\* the case that the type switch of LookupLifecycle selects for the dynamic
\* type of symbol
LifecycleCase(symbol) ==
    IF symbol.dyn # "func" THEN "default"
    ELSE CASE symbol.in = <<>> /\ symbol.out = <<>> -> "func()"
           [] symbol.in = <<>> /\ symbol.out = <<ErrType>> -> "func() error"
           [] symbol.in = <<Ctx>> /\ symbol.out = <<>> -> "func(context.Context)"
           [] symbol.in = <<Ctx>> /\ symbol.out = <<ErrType>> -> "func(context.Context) error"
           [] OTHER -> "default"

\* a func(context.Context) error: nil, or the closure a case of the switch
\* builds around f
NilCallback == [cb |-> "nil"]
Callback(c, f) == [cb |-> c, f |-> f]

\* calling a callback with ctx, where the function it closes over returns e
\* when it has a result: the argument lists f is called with, and the error
\* the callback returns
Call(callback, ctx, e) ==
    CASE callback.cb = "func()" -> [calls |-> << <<>> >>, err |-> NilErr]
      [] callback.cb = "func() error" -> [calls |-> << <<>> >>, err |-> e]
      [] callback.cb = "func(context.Context)" -> [calls |-> << <<ctx>> >>, err |-> NilErr]
      [] callback.cb = "func(context.Context) error" -> [calls |-> << <<ctx>> >>, err |-> e]

\* the type switch of LookupLifecycle on what Lookup returned
lifecycleSwitch(name, r) ==
    IF r.err = NilErr
    THEN IF LifecycleCase(r.value) = "default"
         THEN [callback |-> NilCallback,
               err |-> InvalidLifecycleError(name, TypeOf(r.value))]
         ELSE [callback |-> Callback(LifecycleCase(r.value), r.value), err |-> NilErr]
    ELSE [callback |-> NilCallback, err |-> r.err]

\* LookupLifecycle(s, name)
LookupLifecycle(k, t, name) == lifecycleSwitch(name, Lookup(k, t, name))

\* fx.Invoke(func(l fx.Lifecycle) { l.Append(hook) }) and fx.Options(...)
FxHook(hook) == [opt |-> "Hook", OnStart |-> hook.OnStart, OnStop |-> hook.OnStop]
FxOptions(options) == [opt |-> "Options", options |-> options]

\* the assignment and the test after LookupLifecycle, as they are in the
\* revision whose flag silences every lookup error
hookLooked_IgnoreAnyError(ignoreMissing, name, s, r) ==
    [callback |-> r.callback,
     options |-> IF ~ignoreMissing /\ r.err # NilErr
                 THEN Append(s.options, FxError(r.err))
                 ELSE s.options,
     looked |-> Append(s.looked, name)]

\* hook.OnStart, err = LookupLifecycle(p, lc.OnStart) and the test of err
\* that follows it, r being what LookupLifecycle returned
hookLooked(ignoreMissing, name, s, r) ==
    LET missing == IsMissingSymbolError(r.err)
    IN  [callback |-> r.callback,
         options |-> IF (missing /\ ~ignoreMissing) \/ (~missing /\ r.err # NilErr)
                     THEN Append(s.options, FxError(r.err))
                     ELSE s.options,
         looked |-> Append(s.looked, name)]

\* the block as it would be without the test of the length of the name
bindHook_EmptyLookedUp(ignoreMissing, k, t, name, s) ==
    hookLooked(ignoreMissing, name, s, LookupLifecycle(k, t, name))

\* the block of Lifecycle.Provide for one name (OnStart, then OnStop): the
\* callback for the hook, the options so far and the names looked up so far
bindHook(ignoreMissing, k, t, name, s) ==
    IF name # ""
    THEN hookLooked(ignoreMissing, name, s, LookupLifecycle(k, t, name))
    ELSE [callback |-> NilCallback, options |-> s.options, looked |-> s.looked]

\* the end of Lifecycle.Provide, s1 and s2 being what the two blocks left:
\* the option returned; marks[i] is the number of options after the i-th block
lifecycleOption(s1, s2) ==
    [option |-> IF /\ Len(s2.options) = 0
                   /\ (s1.callback.cb # "nil" \/ s2.callback.cb # "nil")
                THEN FxHook([OnStart |-> s1.callback, OnStop |-> s2.callback])
                ELSE FxOptions(s2.options),
     marks |-> <<Len(s1.options), Len(s2.options)>>,
     looked |-> s2.looked]

\* Lifecycle.Provide from its second block on
lifecycleOnStop(lc, k, t, s1) ==
    lifecycleOption(s1, bindHook(lc.IgnoreMissing, k, t, lc.OnStop, s1))

\* Lifecycle{OnStart, OnStop, IgnoreMissing}.Provide(p)
LifecycleProvide(lc, k, t) ==
    lifecycleOnStop(lc, k, t,
        bindHook(lc.IgnoreMissing, k, t, lc.OnStart, [options |-> <<>>, looked |-> <<>>]))

\* the entries of an option as the container sees them: groups flattened
RECURSIVE Flatten(_)
RECURSIVE FlattenAll(_, _)
FlattenAll(options, i) ==
    IF i > Len(options) THEN <<>>
    ELSE Flatten(options[i]) \o FlattenAll(options, i + 1)

Flatten(option) ==
    IF option.opt = "Options" THEN FlattenAll(option.options, 1) ELSE <<option>>

DoLookupLifecycle(name) ==
    /\ pc = "ready"
    /\ pc' = "done"
    /\ last' = [op |-> "LookupLifecycle", name |-> name]
                    @@ LookupLifecycle(kind, table, name)
    /\ UNCHANGED <<kind, table>>

DoLifecycleProvide(lc) ==
    /\ pc = "ready"
    /\ pc' = "done"
    /\ last' = [op |-> "Lifecycle.Provide", lc |-> lc]
                    @@ LifecycleProvide(lc, kind, table)
    /\ UNCHANGED <<kind, table>>

InitLifecycle ==
    /\ kind \in {"SymbolMap", "plugin"}
    /\ table \in LifecycleTables
    /\ pc = "ready"
    /\ last = [op |-> "none"]

NextLifecycle ==
    \/ \E n \in SymNames : DoLookupLifecycle(n)
    \/ \E lc \in Lifecycles : DoLifecycleProvide(lc)

SpecLifecycle == InitLifecycle /\ [][NextLifecycle]_vars

\* -------------------------------------------------------- lifecycle claims
IsLookupLifecycle == last.op = "LookupLifecycle"
IsLifecycleProvide == last.op = "Lifecycle.Provide"

\* the batch of the option that Provide returned
Batch == Flatten(last.option)

\* the four signatures the documentation of LookupLifecycle lists
AcceptedLifecycleShape(sym) ==
    /\ IsFunc(sym)
    /\ sym.in \in {<<>>, <<Ctx>>}
    /\ sym.out \in {<<>>, <<ErrType>>}

\* C11: a present symbol is accepted by LookupLifecycle (nil error and a
\* callback) iff its type is exactly one of func(), func() error,
\* func(context.Context), func(context.Context) error; every other present
\* symbol is rejected with InvalidLifecycleError carrying the symbol name and
\* no callback.
C11_ExactlyFourShapes ==
    (IsLookupLifecycle /\ Present(last.name)) =>
        IF AcceptedLifecycleShape(table[last.name])
        THEN /\ last.err = NilErr
             /\ last.callback.cb # "nil"
        ELSE /\ last.err.type = "InvalidLifecycleError"
             /\ last.err.Name = last.name
             /\ last.callback = NilCallback

\* the contexts a callback is called with and the errors the function a
\* callback closes over can return
Contexts == {"ctx1", "ctx2"}
Outcomes == {NilErr, ErrorString("failed")}

\* calling the symbol itself with ctx, where it returns e when it has a result
Original(sym, ctx, e) ==
    [calls |-> << IF sym.in = <<>> THEN <<>> ELSE <<ctx>> >>,
     err |-> IF sym.out = <<>> THEN NilErr ELSE e]

\* C12: for a present symbol of each of the four accepted signatures,
\* LookupLifecycle returns a callback, and calling it once with a context
\* calls the symbol exactly once (with that context when it takes one) and
\* returns the symbol's error, or nil when the symbol returns nothing.
C12_SameOutcome ==
    (IsLookupLifecycle /\ Present(last.name)
        /\ AcceptedLifecycleShape(table[last.name])) =>
        /\ last.callback.cb # "nil"
        /\ \A ctx \in Contexts, e \in Outcomes :
              Call(last.callback, ctx, e) = Original(table[last.name], ctx, e)

\* the name of the i-th block of Lifecycle.Provide (1: OnStart, 2: OnStop)
\* and the options that block put into the batch
SlotName(i) == IF i = 1 THEN last.lc.OnStart ELSE last.lc.OnStop
SlotPart(i) ==
    SubSeq(Batch, (IF i = 1 THEN 0 ELSE last.marks[1]) + 1, last.marks[i])

PresentInvalidHook(n) ==
    n # "" /\ Present(n) /\ ~AcceptedLifecycleShape(table[n])

\* C13: in Lifecycle.Provide a hook name whose symbol is present but is not
\* of an accepted signature always produces one Fatal entry carrying
\* InvalidLifecycleError with that name, for OnStart and for OnStop, for both
\* values of IgnoreMissing.
C13_InvalidHookAlwaysFatal ==
    IsLifecycleProvide =>
        \A i \in 1..2 :
            PresentInvalidHook(SlotName(i)) =>
                /\ Len(SlotPart(i)) = 1
                /\ IsFatal(SlotPart(i)[1])
                /\ SlotPart(i)[1].err.type = "InvalidLifecycleError"
                /\ SlotPart(i)[1].err.Name = SlotName(i)

C13_Witness ==
    /\ IsLifecycleProvide
    /\ last.lc = [OnStart |-> "", OnStop |-> "a", IgnoreMissing |-> TRUE]
    /\ Present("a")
    /\ table["a"] = Fn(<<"int">>, <<"bool">>)
    /\ Len(Batch) = 1
    /\ IsFatal(Batch[1])
    /\ Batch[1].err.type = "InvalidLifecycleError"

HookCount == Cardinality({i \in 1..Len(Batch) : Batch[i].opt = "Hook"})
FatalCount == Cardinality({i \in 1..Len(Batch) : IsFatal(Batch[i])})

\* a hook name that resolves to a valid callback, and one that calls for a
\* Fatal entry: present with another signature, or absent and not ignored
ResolvesValidHook(n) ==
    n # "" /\ Present(n) /\ AcceptedLifecycleShape(table[n])
CallsForFatal(n) ==
    \/ PresentInvalidHook(n)
    \/ n # "" /\ ~Present(n) /\ ~last.lc.IgnoreMissing

\* C14: Lifecycle.Provide emits exactly one hook registration iff at least
\* one of OnStart/OnStop resolves to a valid callback and neither name calls
\* for a Fatal entry; it never emits more than one, and a hook registration
\* and a Fatal entry never appear together in its batch.
C14_HookIffResolvedAndNoFatal ==
    IsLifecycleProvide =>
        /\ HookCount <= 1
        /\ ~(HookCount > 0 /\ FatalCount > 0)
        /\ (HookCount = 1) <=>
              /\ ResolvesValidHook(last.lc.OnStart) \/ ResolvesValidHook(last.lc.OnStop)
              /\ ~CallsForFatal(last.lc.OnStart)
              /\ ~CallsForFatal(last.lc.OnStop)

NonEmptyName(n) == n # ""
MissingHook(n) == n # "" /\ ~Present(n)

\* C15: in Lifecycle.Provide a non-empty OnStart or OnStop whose symbol is
\* absent gets no entry when IgnoreMissing is set (with both names absent the
\* batch is empty) and exactly one Fatal entry carrying MissingSymbolError
\* with that name when it is not; an empty name is never looked up and gets
\* no entry.
C15_MissingHookByPolicy ==
    IsLifecycleProvide =>
        /\ \A i \in 1..2 :
              /\ MissingHook(SlotName(i)) =>
                    IF last.lc.IgnoreMissing
                    THEN SlotPart(i) = <<>>
                    ELSE /\ Len(SlotPart(i)) = 1
                         /\ IsFatalMissing(SlotPart(i)[1], SlotName(i))
              /\ SlotName(i) = "" => SlotPart(i) = <<>>
        /\ (last.lc.IgnoreMissing /\ MissingHook(last.lc.OnStart)
               /\ MissingHook(last.lc.OnStop)) => Batch = <<>>
        /\ last.looked = SelectSeq(<<last.lc.OnStart, last.lc.OnStop>>, NonEmptyName)

C15_Witness ==
    /\ IsLifecycleProvide
    /\ last.lc = [OnStart |-> "a", OnStop |-> "b", IgnoreMissing |-> TRUE]
    /\ ~Present("a")
    /\ ~Present("b")
    /\ kind = "plugin"
    /\ last.looked = <<"a", "b">>
    /\ Batch = <<>>

\* ------------------------------------------------ provide.go: the modules
MaxPaths == 2     \* the longest list of S.Paths

\* the files of the directory in the order filepath.Glob lists them; a file
\* system says for each whether it is absent, a file plugin.Open rejects, or
\* a plugin
DiskOrder == <<"p1.so", "p2.so">>
DiskPaths == {DiskOrder[i] : i \in 1..Len(DiskOrder)}
FileSystems == [DiskPaths -> {"absent", "file", "plugin"}]

\* the paths handed to P and the patterns handed to S; $P2 is a variable of
\* the environment
PPaths == {"p1.so", "$P2", "nosuch"}
Patterns == {"[", "*.so", "p1.so", "$P2"}
PathLists == UNION {[1..k -> Patterns] : k \in 0..MaxPaths}

\* os.ExpandEnv in an environment where P2=p2.so
ExpandEnv(path) == IF path = "$P2" THEN "p2.so" ELSE path

ErrBadPattern == [type |-> "ErrBadPattern"]

\* the expansion as it would be if a path without metacharacters were kept
\* whether or not the file exists
Glob_LiteralKept(pattern, fs) ==
    CASE pattern = "[" -> [matches |-> <<>>, err |-> ErrBadPattern]
      [] pattern = "*.so" ->
            [matches |-> SelectSeq(DiskOrder, LAMBDA f : fs[f] # "absent"), err |-> NilErr]
      [] OTHER -> [matches |-> <<pattern>>, err |-> NilErr]

\* filepath.Glob: a malformed pattern fails, a pattern matches the existing
\* files in lexical order, a path without metacharacters matches itself when
\* the file exists
Glob(pattern, fs) ==
    LET Exists(f) == fs[f] # "absent"
    IN  CASE pattern = "[" -> [matches |-> <<>>, err |-> ErrBadPattern]
          [] pattern = "*.so" -> [matches |-> SelectSeq(DiskOrder, Exists), err |-> NilErr]
          [] OTHER -> [matches |-> IF pattern \in DiskPaths /\ Exists(pattern)
                                   THEN <<pattern>> ELSE <<>>,
                       err |-> NilErr]

\* plugin.Open: the plugin at path, or a nil *plugin.Plugin and an error
NilModule == [mod |-> "nilptr"]
Module(path) == [mod |-> "plugin", path |-> path]
PluginOpen(path, fs) ==
    IF path \in DiskPaths /\ fs[path] = "plugin"
    THEN [plugin |-> Module(path), err |-> NilErr]
    ELSE [plugin |-> NilModule, err |-> ErrorString(path)]

\* Open(path)
OpenError(path, cause) == [type |-> "OpenError", Path |-> path, Err |-> cause]
Open(path, fs) ==
    LET r == PluginOpen(path, fs)
    IN  IF r.err # NilErr
        THEN [plugin |-> r.plugin, err |-> OpenError(path, r.err)]
        ELSE [plugin |-> r.plugin, err |-> NilErr]

\* the values of the fields of P and S
ComponentNames == {"", "MyPlugin"}
ComponentGroups == {"", "plugins"}
SymbolsValues ==
    {[Names |-> <<>>, IgnoreMissing |-> FALSE],
     [Names |-> <<NameReq("a")>>, IgnoreMissing |-> FALSE]}
LifecycleValues ==
    {[OnStart |-> "", OnStop |-> "", IgnoreMissing |-> FALSE],
     [OnStart |-> "a", OnStop |-> "b", IgnoreMissing |-> TRUE]}
Ps == [Name : ComponentNames, Group : ComponentGroups, Anonymous : BOOLEAN,
       Path : PPaths, Symbols : SymbolsValues, Lifecycle : LifecycleValues]
Ss == [Group : ComponentGroups, Paths : PathLists,
       Symbols : SymbolsValues, Lifecycle : LifecycleValues]

\* the symbols of the plugins on disk
PluginTables == {EmptyTable, [n \in {"a"} |-> Fn(<<>>, <<"T">>)]}

\* func() (Plugin, error) { return plugin, err }
Provider(plugin, err) ==
    [dyn |-> "func", in |-> <<>>, out |-> <<"Plugin", ErrType>>,
     plugin |-> plugin, err |-> err]

\* the switch of P.Provide as it would be without its last case
exposeModule_AnonymousErrorLost(p, r, options) ==
    IF ~p.Anonymous /\ (p.Name # "" \/ p.Group # "")
    THEN Append(options, FxAnnotated(p.Name, p.Group, Provider(r.plugin, r.err)))
    ELSE IF ~p.Anonymous
         THEN Append(options, FxProvide(Provider(r.plugin, r.err)))
         ELSE options

\* the switch as it would be if the provider returned a nil error
exposeModule_ProviderDropsError(p, r, options) ==
    IF ~p.Anonymous /\ (p.Name # "" \/ p.Group # "")
    THEN Append(options, FxAnnotated(p.Name, p.Group, Provider(r.plugin, NilErr)))
    ELSE IF ~p.Anonymous
         THEN Append(options, FxProvide(Provider(r.plugin, NilErr)))
         ELSE IF r.err # NilErr
              THEN Append(options, FxError(r.err))
              ELSE options

\* the switch as it would be if Anonymous did not override Name and Group
exposeModule_AnonymousNotFirst(p, r, options) ==
    IF p.Name # "" \/ p.Group # ""
    THEN Append(options, FxAnnotated(p.Name, p.Group, Provider(r.plugin, r.err)))
    ELSE IF ~p.Anonymous
         THEN Append(options, FxProvide(Provider(r.plugin, r.err)))
         ELSE IF r.err # NilErr
              THEN Append(options, FxError(r.err))
              ELSE options

\* the switch of P.Provide, r being what Open returned and options the
\* options so far
exposeModule(p, r, options) ==
    IF ~p.Anonymous /\ (p.Name # "" \/ p.Group # "")
    THEN Append(options, FxAnnotated(p.Name, p.Group, Provider(r.plugin, r.err)))
    ELSE IF ~p.Anonymous
         THEN Append(options, FxProvide(Provider(r.plugin, r.err)))
         ELSE IF r.err # NilErr
              THEN Append(options, FxError(r.err))
              ELSE options

\* the options of Symbols and Lifecycle, appended when Open succeeded; the
\* binding of the Lifecycle field is Lifecycle.Provide of lifecycle.go
bindModule(p, r, k, t) ==
    IF r.err = NilErr
    THEN <<FxOptions(Load(p.Symbols.Names, p.Symbols.IgnoreMissing, k, t).options),
           LifecycleProvide(p.Lifecycle, k, t).option>>
    ELSE <<>>

\* P.Provide after the call of Open
provideOpened(p, r, k, t) == FxOptions(exposeModule(p, r, bindModule(p, r, k, t)))

\* P{...}.Provide(): the option returned and the paths handed to Open
PProvide(p, fs, k, t) ==
    [option |-> provideOpened(p, Open(ExpandEnv(p.Path), fs), k, t),
     opened |-> <<ExpandEnv(p.Path)>>]

\* the append of S.Provide as it would be if the newest module came first
appendModule_NewestFirst(acc, r) ==
    [options |-> <<r.option>> \o acc.options, opened |-> r.opened \o acc.opened,
     marks |-> acc.marks, omarks |-> acc.omarks]

\* options = append(options, P{...}.Provide()), r being what Provide returned
appendModule(acc, r) ==
    [options |-> Append(acc.options, r.option), opened |-> acc.opened \o r.opened,
     marks |-> acc.marks, omarks |-> acc.omarks]

\* the inner loop as it would be if no module of a set were anonymous
RECURSIVE SProvideMatches_NeverAnonymous(_, _, _, _, _, _, _)
SProvideMatches_NeverAnonymous(s, fs, k, t, matches, j, acc) ==
    IF j > Len(matches)
    THEN acc
    ELSE SProvideMatches_NeverAnonymous(s, fs, k, t, matches, j + 1,
             appendModule(acc,
                 PProvide([Name |-> "", Group |-> s.Group, Anonymous |-> FALSE,
                           Path |-> matches[j], Symbols |-> s.Symbols,
                           Lifecycle |-> s.Lifecycle], fs, k, t)))

\* the inner loop of S.Provide: one P per match
RECURSIVE SProvideMatches(_, _, _, _, _, _, _)
SProvideMatches(s, fs, k, t, matches, j, acc) ==
    IF j > Len(matches)
    THEN acc
    ELSE SProvideMatches(s, fs, k, t, matches, j + 1,
             appendModule(acc,
                 PProvide([Name |-> "", Group |-> s.Group, Anonymous |-> s.Group = "",
                           Path |-> matches[j], Symbols |-> s.Symbols,
                           Lifecycle |-> s.Lifecycle], fs, k, t)))

\* the body of the outer loop as it would be if a malformed pattern were
\* skipped without an entry
provideGlobbed_BadPatternDropped(s, fs, k, t, g, acc) ==
    IF g.err # NilErr
    THEN acc
    ELSE SProvideMatches(s, fs, k, t, g.matches, 1, acc)

\* the body of the outer loop of S.Provide, g being what filepath.Glob
\* returned
provideGlobbed(s, fs, k, t, g, acc) ==
    IF g.err # NilErr
    THEN [acc EXCEPT !.options = Append(@, FxError(g.err))]
    ELSE SProvideMatches(s, fs, k, t, g.matches, 1, acc)

\* marks[i] is the number of options, and omarks[i] the number of paths
\* handed to Open, after the i-th element of Paths
marked(acc) ==
    [acc EXCEPT !.marks = Append(@, Len(acc.options)),
                !.omarks = Append(@, Len(acc.opened))]

\* the outer loop of S.Provide
RECURSIVE SProvideLoop(_, _, _, _, _, _)
SProvideLoop(s, fs, k, t, i, acc) ==
    IF i > Len(s.Paths)
    THEN acc
    ELSE SProvideLoop(s, fs, k, t, i + 1,
             marked(provideGlobbed(s, fs, k, t, Glob(ExpandEnv(s.Paths[i]), fs), acc)))

\* return fx.Options(options...)
provided(acc) ==
    [option |-> FxOptions(acc.options), opened |-> acc.opened,
     marks |-> acc.marks, omarks |-> acc.omarks]

\* S{...}.Provide()
SProvide(s, fs, k, t) ==
    provided(SProvideLoop(s, fs, k, t, 1,
        [options |-> <<>>, opened |-> <<>>, marks |-> <<>>, omarks |-> <<>>]))

DoOpen(path, fs) ==
    /\ pc = "ready"
    /\ pc' = "done"
    /\ last' = [op |-> "Open", path |-> path, fs |-> fs] @@ Open(path, fs)
    /\ UNCHANGED <<kind, table>>

DoPProvide(p, fs) ==
    /\ pc = "ready"
    /\ pc' = "done"
    /\ last' = [op |-> "P.Provide", p |-> p, fs |-> fs] @@ PProvide(p, fs, kind, table)
    /\ UNCHANGED <<kind, table>>

DoSProvide(s, fs) ==
    /\ pc = "ready"
    /\ pc' = "done"
    /\ last' = [op |-> "S.Provide", s |-> s, fs |-> fs] @@ SProvide(s, fs, kind, table)
    /\ UNCHANGED <<kind, table>>

InitProvide ==
    /\ kind = "plugin"
    /\ table \in PluginTables
    /\ pc = "ready"
    /\ last = [op |-> "none"]

NextProvide ==
    \/ \E path \in PPaths, fs \in FileSystems : DoOpen(path, fs)
    \/ \E p \in Ps, fs \in FileSystems : DoPProvide(p, fs)
    \/ \E s \in Ss, fs \in FileSystems : DoSProvide(s, fs)

SpecProvide == InitProvide /\ [][NextProvide]_vars

\* ---------------------------------------------------------- module claims
IsOpen == last.op = "Open"
IsPProvide == last.op = "P.Provide"
IsSProvide == last.op = "S.Provide"

\* plugin.Open fails for path in the file system fs
OpenFails(path, fs) == ~(path \in DiskPaths /\ fs[path] = "plugin")

\* the registration of the module itself, and a Fatal entry of an OpenError
IsModuleProvider(o) ==
    /\ o.opt \in {"Provide", "Annotated"}
    /\ o.target.out = <<"Plugin", ErrType>>
IsFatalOpen(o, path) ==
    /\ IsFatal(o)
    /\ o.err.type = "OpenError"
    /\ o.err.Path = path
    /\ o.err.Err # NilErr

\* C16: when plugin.Open fails, Open returns an OpenError whose Path is the
\* path it was given and whose cause is not nil; P.Provide then has no entry
\* of Symbols or Lifecycle in its batch (nothing but the module's provider or
\* the Fatal entry), and with Anonymous set the batch is that Fatal entry.
C16_OpenFailure ==
    /\ (IsOpen /\ OpenFails(last.path, last.fs)) =>
          /\ last.err.type = "OpenError"
          /\ last.err.Path = last.path
          /\ last.err.Err # NilErr
    /\ (IsPProvide /\ OpenFails(ExpandEnv(last.p.Path), last.fs)) =>
          /\ last.opened = <<ExpandEnv(last.p.Path)>>
          /\ Batch = last.option.options
          /\ \A i \in 1..Len(Batch) :
                \/ IsModuleProvider(Batch[i])
                \/ IsFatalOpen(Batch[i], ExpandEnv(last.p.Path))
          /\ last.p.Anonymous =>
                /\ Len(Batch) = 1
                /\ IsFatalOpen(Batch[1], ExpandEnv(last.p.Path))

C16_Witness ==
    /\ IsPProvide
    /\ last.p.Anonymous
    /\ last.p.Path = "nosuch"
    /\ last.p.Symbols.Names # <<>>
    /\ last.p.Lifecycle.OnStart # ""
    /\ Present("a")
    /\ Batch = <<FxError(OpenError("nosuch", ErrorString("nosuch")))>>

\* C17: whenever the open of a module fails, the batch of P.Provide contains
\* a Fatal entry carrying the OpenError, whether the module is anonymous,
\* named, grouped or neither.
C17_OpenFailureAlwaysFatal ==
    (IsPProvide /\ OpenFails(ExpandEnv(last.p.Path), last.fs)) =>
        \E i \in 1..Len(Batch) :
            IsFatalOpen(Batch[i], ExpandEnv(last.p.Path))

\* C17 as the code has it: the batch contains the Fatal entry exactly when
\* Anonymous is set; a module that is not anonymous gets its provider and no
\* Fatal entry, and the provider returns the OpenError when it is invoked.
C17_OpenFailureFatalIfAnonymous ==
    (IsPProvide /\ OpenFails(ExpandEnv(last.p.Path), last.fs)) =>
        /\ Len(Batch) = 1
        /\ IF last.p.Anonymous
           THEN IsFatalOpen(Batch[1], ExpandEnv(last.p.Path))
           ELSE /\ ~IsFatal(Batch[1])
                /\ IsModuleProvider(Batch[1])
                /\ Batch[1].target.err.type = "OpenError"
                /\ Batch[1].target.err.Path = ExpandEnv(last.p.Path)
                /\ Batch[1].target.err.Err # NilErr

C17_Witness ==
    /\ IsPProvide
    /\ ~last.p.Anonymous
    /\ last.p.Name = "MyPlugin"
    /\ last.p.Path = "$P2"
    /\ last.fs["p2.so"] = "file"
    /\ Batch =
          <<FxAnnotated("MyPlugin", last.p.Group,
                Provider(NilModule, OpenError("p2.so", ErrorString("p2.so"))))>>

\* the positions of the batch that register the module itself
ModuleProviders == {i \in 1..Len(Batch) : IsModuleProvider(Batch[i])}

\* C18: P.Provide exposes the module by Anonymous, Name and Group alone,
\* whether or not the open succeeded: with Anonymous no provider of the
\* module is registered whatever Name and Group are; without it and with a
\* Name or a Group exactly one provider annotated with that Name and Group;
\* without it and with neither exactly one plain provider; the provider
\* returns the module and the error Open returned.
C18_ModuleExposure ==
    IsPProvide =>
        LET r == Open(ExpandEnv(last.p.Path), last.fs)
            provider == Provider(r.plugin, r.err)
        IN  IF last.p.Anonymous
            THEN ModuleProviders = {}
            ELSE /\ Cardinality(ModuleProviders) = 1
                 /\ \A i \in ModuleProviders :
                       Batch[i] =
                           IF last.p.Name # "" \/ last.p.Group # ""
                           THEN FxAnnotated(last.p.Name, last.p.Group, provider)
                           ELSE FxProvide(provider)

C18_Witness ==
    /\ IsPProvide
    /\ last.p.Anonymous
    /\ last.p.Name = "MyPlugin"
    /\ last.p.Path = "p1.so"
    /\ last.fs["p1.so"] = "plugin"
    /\ ModuleProviders = {}
    /\ Len(last.option.options) = 2

\* the options, and the paths handed to Open, that the i-th element of
\* S.Paths produced
SPart(i) ==
    SubSeq(last.option.options, (IF i = 1 THEN 0 ELSE last.marks[i - 1]) + 1, last.marks[i])
SOpened(i) ==
    SubSeq(last.opened, (IF i = 1 THEN 0 ELSE last.omarks[i - 1]) + 1, last.omarks[i])

\* what S.Provide does for the i-th element of Paths alone
SAlone(i) ==
    SProvide([last.s EXCEPT !.Paths = <<last.s.Paths[i]>>], last.fs, kind, table)

BadPattern(path) == Glob(ExpandEnv(path), last.fs).err # NilErr

\* C19: in S.Provide an element of Paths whose pattern cannot be expanded
\* contributes exactly one Fatal entry carrying the pattern error and no
\* module is opened for it; every other element, before and after it, is
\* expanded and processed as it is when it stands alone.
C19_BadPatternFatal ==
    IsSProvide =>
        /\ Len(last.marks) = Len(last.s.Paths)
        /\ Len(last.s.Paths) > 0 =>
              last.marks[Len(last.s.Paths)] = Len(last.option.options)
        /\ \A i \in 1..Len(last.s.Paths) :
              IF BadPattern(last.s.Paths[i])
              THEN /\ SPart(i) = <<FxError(ErrBadPattern)>>
                   /\ SOpened(i) = <<>>
              ELSE /\ SPart(i) = SAlone(i).option.options
                   /\ SOpened(i) = SAlone(i).opened
                   /\ SOpened(i) = Glob(ExpandEnv(last.s.Paths[i]), last.fs).matches
                   /\ Len(SPart(i)) = Len(SOpened(i))

C19_Witness ==
    /\ IsSProvide
    /\ last.s.Paths = <<"[", "*.so">>
    /\ last.fs = [f \in DiskPaths |-> "plugin"]
    /\ last.option.options[1] = FxError(ErrBadPattern)
    /\ Len(last.option.options) = 3
    /\ last.opened = <<"p1.so", "p2.so">>

\* ------------------------------------------------- Find (earliest revision)
MaxSources == 2    \* the longest list of sources handed to Find

\* a source handed to Find: the nil interface, the nil *plugin.Plugin that
\* Open returns beside its error, a SymbolMap or a plugin
NilSource == [src |-> "nil"]
NilPluginPointer == [src |-> "nilptr"]
Source(k, t) == [src |-> k, t |-> t]

FindTables == UNION {[D -> {Fn(<<>>, <<>>), Ptr(123)}] : D \in SUBSET HeldNames}
FindSources ==
    {NilSource, NilPluginPointer}
        \cup {Source(k, t) : k \in {"SymbolMap", "plugin"}, t \in FindTables}
SourceLists == UNION {[1..k -> FindSources] : k \in 0..MaxSources}

\* Find(name, s...): a nil interface is skipped; the Lookup method of every
\* other source is called, and (*plugin.Plugin).Lookup dereferences its
\* receiver; consulted lists the positions whose Lookup was called
RECURSIVE FindLoop(_, _, _, _)
FindLoop(name, s, i, consulted) ==
    IF i > Len(s)
    THEN [panicked |-> FALSE, value |-> NilIface,
          err |-> MissingSymbolError(name, NilErr), consulted |-> consulted]
    ELSE IF s[i] = NilSource
         THEN FindLoop(name, s, i + 1, consulted)
         ELSE IF s[i] = NilPluginPointer
              THEN [panicked |-> TRUE, value |-> NilIface, err |-> NilErr,
                    consulted |-> Append(consulted, i)]
              ELSE LET r == SourceLookup(s[i].src, s[i].t, name)
                   IN  IF r.err = NilErr
                       THEN [panicked |-> FALSE, value |-> r.symbol, err |-> NilErr,
                             consulted |-> Append(consulted, i)]
                       ELSE FindLoop(name, s, i + 1, Append(consulted, i))

Find(name, s) == FindLoop(name, s, 1, <<>>)

DoFind(name, s) ==
    /\ pc = "ready"
    /\ pc' = "done"
    /\ last' = [op |-> "Find", name |-> name, sources |-> s] @@ Find(name, s)
    /\ UNCHANGED <<kind, table>>

InitFind ==
    /\ kind = "SymbolMap"
    /\ table = EmptyTable
    /\ pc = "ready"
    /\ last = [op |-> "none"]

NextFind == \E n \in SymNames, s \in SourceLists : DoFind(n, s)

SpecFind == InitFind /\ [][NextFind]_vars

\* ------------------------------------------------------------ Find claims
IsFind == last.op = "Find"

\* a source that is nil, and a source that holds the name
IsNilSource(s) == s.src \in {"nil", "nilptr"}
Holds(s, n) == ~IsNilSource(s) /\ n \in DOMAIN s.t
Holders == {i \in 1..Len(last.sources) : Holds(last.sources[i], last.name)}
FirstHolder == CHOOSE i \in Holders : \A j \in Holders : i <= j

\* the positions Find has to consult: the sources that are not nil, up to
\* the first one that holds the name
ToConsult(i) ==
    /\ ~IsNilSource(last.sources[i])
    /\ Holders # {} => i <= FirstHolder
Positions == [i \in 1..Len(last.sources) |-> i]

\* C20: Find consults the sources in the order of its arguments, skips every
\* nil source without panicking, and returns the value of the first source
\* that holds the name with a nil error; when no source holds it, it returns
\* a nil value and a MissingSymbolError with the name and no cause.
C20_FirstHolderInOrder ==
    IsFind =>
        /\ ~last.panicked
        /\ last.consulted = SelectSeq(Positions, ToConsult)
        /\ IF Holders # {}
           THEN /\ last.value = last.sources[FirstHolder].t[last.name]
                /\ last.err = NilErr
           ELSE /\ last.value = NilIface
                /\ last.err = MissingSymbolError(last.name, NilErr)

\* ------------------------------------------------- symbolMap.go: SymbolMap
MaxOps == 3      \* the longest sequence of calls made on one SymbolMap
MaxArgs == 3     \* the longest argument list handed to NewSymbols

\* the values a caller hands to Set, NewSymbolMap and NewSymbols
MapValues == {Fn(<<>>, <<"T">>), Ptr(123), IntVal(123), IntVal(456), NilIface, NilPtr}
StringVal(s) == [dyn |-> "string", s |-> s]
NameArgs == {StringVal(n) : n \in SymNames} \cup {IntVal(123)}

\* SymbolMap{symbols}: made is FALSE while the symbols field is the nil map
SymbolMap(made, symbols) == [made |-> made, symbols |-> symbols]
ZeroSymbolMap == SymbolMap(FALSE, EmptyTable)

\* sm.symbols[name] = value
Store(symbols, name, value) ==
    [n \in DOMAIN symbols \cup {name} |-> IF n = name THEN value ELSE symbols[n]]

\* Set as it would be if the value were stored before it is examined
SymbolMapSet_StoreFirst(sm, name, value) ==
    [panicked |-> SetPanics(value),
     sm |-> SymbolMap(TRUE, Store(sm.symbols, name, value))]

\* Set as it would be if no value were boxed
SymbolMapSet_NoBoxing(sm, name, value) ==
    IF SetPanics(value)
    THEN [panicked |-> TRUE, sm |-> sm]
    ELSE [panicked |-> FALSE, sm |-> SymbolMap(TRUE, Store(sm.symbols, name, value))]

\* Set as it would be if the map were rebuilt on every call
SymbolMapSet_FreshMap(sm, name, value) ==
    IF SetPanics(value)
    THEN [panicked |-> TRUE, sm |-> sm]
    ELSE [panicked |-> FALSE, sm |-> SymbolMap(TRUE, Store(EmptyTable, name, SetStored(value)))]

\* sm.Set(name, value)
SymbolMapSet(sm, name, value) ==
    IF SetPanics(value)
    THEN [panicked |-> TRUE, sm |-> sm]
    ELSE [panicked |-> FALSE,
          sm |-> SymbolMap(TRUE, Store(sm.symbols, name, SetStored(value)))]

\* Del as it would be if the name were kept with a nil symbol
SymbolMapDel_KeepsName(sm, name) ==
    IF sm.made /\ name \in DOMAIN sm.symbols
    THEN SymbolMap(TRUE, Store(sm.symbols, name, NilIface))
    ELSE sm

\* sm.Del(name)
SymbolMapDel(sm, name) ==
    IF sm.made
    THEN SymbolMap(TRUE, [n \in DOMAIN sm.symbols \ {name} |-> sm.symbols[n]])
    ELSE sm

\* NewSymbolMap(m): Set is called for every key of m; the keys are distinct,
\* so the order of the iteration does not show in the result
NewSymbolMap(m) ==
    IF \E k \in DOMAIN m : SetPanics(m[k])
    THEN [panicked |-> TRUE, sm |-> ZeroSymbolMap]
    ELSE [panicked |-> FALSE, sm |-> SymbolMap(TRUE, [k \in DOMAIN m |-> SetStored(m[k])])]

\* the loop of NewSymbols: namesAndValues[i].(string), then Set
RECURSIVE NewSymbolsLoop(_, _, _)
NewSymbolsLoop(namesAndValues, i, sm) ==
    IF i > Len(namesAndValues)
    THEN [panicked |-> FALSE, sm |-> sm]
    ELSE IF namesAndValues[i].dyn # "string" \/ SetPanics(namesAndValues[i + 1])
         THEN [panicked |-> TRUE, sm |-> ZeroSymbolMap]
         ELSE NewSymbolsLoop(namesAndValues, i + 2,
                  SymbolMapSet(sm, namesAndValues[i].s, namesAndValues[i + 1]).sm)

\* NewSymbols(namesAndValues...)
NewSymbols(namesAndValues) ==
    IF Len(namesAndValues) % 2 # 0
    THEN [panicked |-> TRUE, sm |-> ZeroSymbolMap]
    ELSE NewSymbolsLoop(namesAndValues, 1, SymbolMap(TRUE, EmptyTable))

\* the maps handed to NewSymbolMap and the argument lists of NewSymbols, in
\* which names and values alternate
ArgValues == {Fn(<<>>, <<"T">>), IntVal(123), NilPtr}
ArgLists ==
    UNION {{l \in [1..k -> NameArgs \cup ArgValues] :
               \A i \in 1..k : IF i % 2 = 1 THEN l[i] \in NameArgs ELSE l[i] \in ArgValues}
           : k \in 0..MaxArgs}
ArgMaps == UNION {[D -> ArgValues] : D \in SUBSET SymNames}

\* ------------------------------------------------ operations on a SymbolMap
\* last.applied[n] lists the calls of Set and Del that returned for the name n
\* since the map was built, last.before is the map as it was before the call
NoCalls == [n \in SymNames |-> <<>>]

DoSet(name, value) ==
    /\ pc = "ready"
    /\ last.steps < MaxOps
    /\ table' = SymbolMapSet(table, name, value).sm
    /\ last' = [op |-> "Set", name |-> name, arg |-> value, before |-> table,
                panicked |-> SymbolMapSet(table, name, value).panicked,
                origin |-> last.origin, steps |-> last.steps + 1,
                applied |-> IF SetPanics(value) THEN last.applied
                            ELSE [last.applied EXCEPT ![name] =
                                     Append(@, [op |-> "Set", arg |-> value])]]
    /\ UNCHANGED <<kind, pc>>

DoDel(name) ==
    /\ pc = "ready"
    /\ last.steps < MaxOps
    /\ table' = SymbolMapDel(table, name)
    /\ last' = [op |-> "Del", name |-> name, before |-> table, panicked |-> FALSE,
                origin |-> last.origin, steps |-> last.steps + 1,
                applied |-> [last.applied EXCEPT ![name] = Append(@, [op |-> "Del"])]]
    /\ UNCHANGED <<kind, pc>>

\* sm.Lookup(name); last.prior is the call that came before this one
DoSymbolMapLookup(name) ==
    /\ pc = "ready"
    /\ last.steps < MaxOps
    /\ last' = [op |-> "SymbolMap.Lookup", name |-> name, before |-> table,
                panicked |-> FALSE, origin |-> last.origin, steps |-> last.steps + 1,
                applied |-> last.applied,
                prior |-> [f \in {"op", "name", "symbol", "err"} \cap DOMAIN last |-> last[f]]]
               @@ SymbolMapLookup(table.symbols, name)
    /\ UNCHANGED <<kind, table, pc>>

\* Lookup(sm, name), the package-level function
DoPackageLookup(name) ==
    /\ pc = "ready"
    /\ last.steps < MaxOps
    /\ last' = [op |-> "Lookup", name |-> name, before |-> table,
                panicked |-> FALSE, origin |-> last.origin, steps |-> last.steps + 1,
                applied |-> last.applied,
                prior |-> [f \in {"op", "name", "value", "err"} \cap DOMAIN last |-> last[f]]]
               @@ Lookup(kind, table.symbols, name)
    /\ UNCHANGED <<kind, table, pc>>

\* sm = NewSymbolMap(m): nothing is assigned when the call panics
DoNewSymbolMap(m) ==
    /\ pc = "ready"
    /\ last.steps < MaxOps
    /\ table' = IF NewSymbolMap(m).panicked THEN table ELSE NewSymbolMap(m).sm
    /\ last' = [op |-> "NewSymbolMap", count |-> Cardinality(DOMAIN m), before |-> table,
                panicked |-> NewSymbolMap(m).panicked,
                origin |-> IF NewSymbolMap(m).panicked THEN last.origin ELSE "NewSymbolMap",
                steps |-> last.steps + 1,
                applied |-> IF NewSymbolMap(m).panicked THEN last.applied ELSE NoCalls]
    /\ UNCHANGED <<kind, pc>>

\* sm = NewSymbols(namesAndValues...): nothing is assigned when the call panics
DoNewSymbols(namesAndValues) ==
    /\ pc = "ready"
    /\ last.steps < MaxOps
    /\ table' = IF NewSymbols(namesAndValues).panicked THEN table
                ELSE NewSymbols(namesAndValues).sm
    /\ last' = [op |-> "NewSymbols", count |-> Len(namesAndValues), before |-> table,
                panicked |-> NewSymbols(namesAndValues).panicked,
                origin |-> IF NewSymbols(namesAndValues).panicked THEN last.origin
                           ELSE "NewSymbols",
                steps |-> last.steps + 1,
                applied |-> IF NewSymbols(namesAndValues).panicked THEN last.applied
                            ELSE NoCalls]
    /\ UNCHANGED <<kind, pc>>

\* var sm SymbolMap
InitSymbolMap ==
    /\ kind = "SymbolMap"
    /\ table = ZeroSymbolMap
    /\ pc = "ready"
    /\ last = [op |-> "none", origin |-> "zero", steps |-> 0, applied |-> NoCalls]

NextSymbolMap ==
    \/ \E n \in SymNames, v \in MapValues : DoSet(n, v)
    \/ \E n \in SymNames : DoDel(n)
    \/ \E n \in SymNames : DoSymbolMapLookup(n)
    \/ \E n \in SymNames : DoPackageLookup(n)
    \/ \E m \in ArgMaps : DoNewSymbolMap(m)
    \/ \E l \in ArgLists : DoNewSymbols(l)

SpecSymbolMap == InitSymbolMap /\ [][NextSymbolMap]_vars

\* ------------------------------------------------------- SymbolMap claims
IsSetCall == last.op = "Set"
IsDelCall == last.op = "Del"
IsMethodLookup == last.op = "SymbolMap.Lookup"
IsPackageLookup == last.op = "Lookup"
FromZeroValue == last.origin = "zero"

\* the last call of Set or Del that returned for the name n
LastCall(n) == last.applied[n][Len(last.applied[n])]
LastWasSet(n) == last.applied[n] # <<>> /\ LastCall(n).op = "Set"

\* the symbol a caller gets back for a value it gave to Set
Given(v) == IF v.dyn \in {"func", "ptr"} THEN v ELSE Ptr(v.elem)

\* what sm.Lookup(n) answers now; the answer of the call itself when the last
\* call was that lookup
Answer(n) ==
    IF IsMethodLookup /\ last.name = n
    THEN [symbol |-> last.symbol, err |-> last.err]
    ELSE SymbolMapLookup(table.symbols, n)

\* C21: after any sequence of Set and Del calls on a zero-value SymbolMap,
\* Lookup(n) succeeds iff the last call that was applied to n is a Set, and
\* then returns the value given to that Set; otherwise it returns a nil symbol
\* and MissingSymbolError{Name: n}.
C21_LastCallDecides ==
    FromZeroValue =>
        \A n \in SymNames :
            IF LastWasSet(n)
            THEN /\ Answer(n).err = NilErr
                 /\ Answer(n).symbol = Given(LastCall(n).arg)
            ELSE /\ Answer(n).symbol = NilIface
                 /\ Answer(n).err = MissingSymbolError(n, NilErr)

C21_Witness ==
    /\ FromZeroValue
    /\ last.applied["a"] = <<[op |-> "Set", arg |-> IntVal(123)], [op |-> "Del"],
                             [op |-> "Set", arg |-> IntVal(456)]>>
    /\ Answer("a") = [symbol |-> Ptr(456), err |-> NilErr]
    /\ Answer("b").err = MissingSymbolError("b", NilErr)

\* C22: every value held by a SymbolMap is a function or a non-nil pointer,
\* however the map was built and changed: Set stores a function or a non-nil
\* pointer as is and any other value as a pointer to a copy of it.
FunctionOrPointer(sym) == sym.dyn \in {"func", "ptr"}

C22_FunctionOrPointer ==
    /\ \A n \in DOMAIN table.symbols : FunctionOrPointer(table.symbols[n])
    /\ (IsSetCall /\ ~last.panicked) =>
          /\ last.name \in DOMAIN table.symbols
          /\ FunctionOrPointer(last.arg) => table.symbols[last.name] = last.arg
          /\ ~FunctionOrPointer(last.arg) =>
                /\ table.symbols[last.name].dyn = "ptr"
                /\ table.symbols[last.name].elem = last.arg.elem

C22_Witness ==
    /\ IsSetCall
    /\ last.arg = IntVal(123)
    /\ Answer(last.name) = [symbol |-> Ptr(123), err |-> NilErr]
    /\ last.origin = "NewSymbols"

\* C23: Set called with an untyped nil or with a nil pointer panics, and
\* NewSymbols called with an odd number of arguments panics; nothing is stored
\* by a call that panics, so the table that existed before the call answers
\* every Lookup as it did before.
AnswerBefore(n) == SymbolMapLookup(last.before.symbols, n)

C23_PanicStoresNothing ==
    /\ (IsSetCall /\ last.arg \in {NilIface, NilPtr}) => last.panicked
    /\ (last.op = "NewSymbols" /\ last.count % 2 = 1) => last.panicked
    /\ (last.op \in {"Set", "NewSymbols"} /\ last.panicked) =>
          /\ table = last.before
          /\ \A n \in SymNames : Answer(n) = AnswerBefore(n)

C23_Witness ==
    /\ IsSetCall
    /\ last.arg = NilPtr
    /\ last.panicked
    /\ last.name \in DOMAIN last.before.symbols
    /\ Answer(last.name) = [symbol |-> Ptr(123), err |-> NilErr]

\* C28: operations on a SymbolMap touch at most the named binding: Lookup
\* (the method and the package-level function) never changes the table, and
\* a lookup repeated right after the same lookup returns the same result;
\* Set(n, v) and Del(n) leave the result of Lookup(m) unchanged for every
\* other name m; Del of a name that is not present, the zero-value table
\* included, changes nothing and does not panic.
PackageAnswer(sm, n) == Lookup(kind, sm.symbols, n)

C28_OnlyNamedBinding ==
    /\ (IsMethodLookup \/ IsPackageLookup) => table = last.before
    /\ (IsMethodLookup /\ last.prior.op = last.op /\ last.prior.name = last.name) =>
          (last.symbol = last.prior.symbol /\ last.err = last.prior.err)
    /\ (IsPackageLookup /\ last.prior.op = last.op /\ last.prior.name = last.name) =>
          (last.value = last.prior.value /\ last.err = last.prior.err)
    /\ (IsSetCall \/ IsDelCall) =>
          \A m \in SymNames \ {last.name} :
              /\ SymbolMapLookup(table.symbols, m) = AnswerBefore(m)
              /\ PackageAnswer(table, m) = PackageAnswer(last.before, m)
    /\ (IsDelCall /\ last.name \notin DOMAIN last.before.symbols) =>
          (table = last.before /\ ~last.panicked)

C28_Witness ==
    /\ IsDelCall
    /\ last.name = "b"
    /\ DOMAIN last.before.symbols = {"a"}
    /\ table = last.before
    /\ last.origin = "zero"

\* ------------------------------------------------- Symbols.Load, whole list
\* the requests that Load answers with a Fatal when they are processed alone
FailingAlone == {i \in 1..Len(last.names) : Alone(i) # <<>> /\ IsFatal(Alone(i)[1])}
FatalEntries == {j \in 1..Len(last.batch) : IsFatal(last.batch[j])}
MustFail(r) == ~IsSymbolRequest(r) \/ MissingRequest(r) \/ WrongShape(r)

\* C24: every request of the list given to Symbols.Load is processed on its
\* own and yields its own entry or its own error: without IgnoreMissing the
\* batch has exactly one entry per request, and as many Fatal entries as there
\* are failing requests; with IgnoreMissing the only requests without an
\* entry are those whose symbol is missing.
C24_EveryRequestProcessed ==
    IsLoad =>
        /\ AllProcessed
        /\ Cardinality(FatalEntries) = Cardinality(FailingAlone)
        /\ \A i \in 1..Len(last.names) :
              /\ Len(Part(i)) <= 1
              /\ (MustFail(last.names[i]) /\ Part(i) # <<>>) => IsFatal(Part(i)[1])
              /\ Part(i) = <<>> <=> (last.IgnoreMissing /\ MissingRequest(last.names[i]))
        /\ ~last.IgnoreMissing => Len(last.batch) = Len(last.names)

C24_Witness ==
    /\ IsLoad
    /\ ~last.IgnoreMissing
    /\ Len(last.names) = 2
    /\ MissingRequest(last.names[1])
    /\ ~IsSymbolRequest(last.names[2])
    /\ Len(last.batch) = 2
    /\ IsFatalMissing(last.batch[1], RequestedName(last.names[1]))
    /\ last.batch[2] = FxError(InvalidNameError("int"))

\* --------------------------------------------------- S.Provide, whole list
\* the matches of the elements i.. of S.Paths, one after the other
RECURSIVE Expansion(_)
Expansion(i) ==
    IF i > Len(last.s.Paths)
    THEN <<>>
    ELSE Glob(ExpandEnv(last.s.Paths[i]), last.fs).matches \o Expansion(i + 1)

\* what P.Provide returns for one match of the set
ModuleAlone(match) ==
    PProvide([Name |-> "", Group |-> last.s.Group, Anonymous |-> last.s.Group = "",
              Path |-> match, Symbols |-> last.s.Symbols,
              Lifecycle |-> last.s.Lifecycle], last.fs, kind, table).option

BadPatterns == {i \in 1..Len(last.s.Paths) : BadPattern(last.s.Paths[i])}

\* C25: S.Provide processes every match of every element of Paths exactly
\* once and in order: the paths handed to Open are the matches in the order
\* of Paths and, within one element, in the order of the expansion; every
\* match has one sub-batch, at its own position, equal to what P.Provide
\* returns for that match alone, whatever happens to the other modules.
C25_OncePerMatchInOrder ==
    IsSProvide =>
        /\ last.opened = Expansion(1)
        /\ Len(last.option.options) = Len(last.opened) + Cardinality(BadPatterns)
        /\ Len(last.marks) = Len(last.s.Paths)
        /\ \A i \in 1..Len(last.s.Paths) :
              i \notin BadPatterns =>
                  /\ SOpened(i) = Glob(ExpandEnv(last.s.Paths[i]), last.fs).matches
                  /\ Len(SPart(i)) = Len(SOpened(i))
                  /\ \A j \in 1..Len(SOpened(i)) : SPart(i)[j] = ModuleAlone(SOpened(i)[j])

C25_Witness ==
    /\ IsSProvide
    /\ last.s.Group = ""
    /\ last.s.Paths = <<"*.so", "p1.so">>
    /\ last.fs = [f \in DiskPaths |-> IF f = "p1.so" THEN "plugin" ELSE "file"]
    /\ last.opened = <<"p1.so", "p2.so", "p1.so">>
    /\ last.option.options[2] = FxOptions(<<FxError(OpenError("p2.so", ErrorString("p2.so")))>>)
    /\ last.option.options[1] = last.option.options[3]
    /\ last.option.options[1] # last.option.options[2]

\* the positions of a sub-batch that register the module itself
ProvidersIn(b) == {x \in 1..Len(b) : IsModuleProvider(b[x])}

\* C26: S.Provide hands every match to P.Provide with Group = S.Group and
\* Anonymous = (S.Group is empty): without a Group no module of the set is
\* registered as a component and a module that cannot be opened leaves its
\* OpenError as a Fatal entry; with a Group every module is registered
\* exactly once, in that value group and without a name.
C26_GroupDecidesExposure ==
    IsSProvide =>
        /\ last.s.Group = "" => ModuleProviders = {}
        /\ \A i \in 1..Len(last.s.Paths) :
              i \notin BadPatterns =>
                  \A j \in 1..Len(SOpened(i)) :
                      LET b == Flatten(SPart(i)[j])
                          r == Open(SOpened(i)[j], last.fs)
                      IN  IF last.s.Group = ""
                          THEN OpenFails(SOpened(i)[j], last.fs) =>
                                   b = <<FxError(r.err)>> /\ IsFatalOpen(b[1], SOpened(i)[j])
                          ELSE /\ Cardinality(ProvidersIn(b)) = 1
                               /\ \A x \in ProvidersIn(b) :
                                     b[x] = FxAnnotated("", last.s.Group,
                                                        Provider(r.plugin, r.err))

C26_Witness ==
    /\ IsSProvide
    /\ last.s.Group = "plugins"
    /\ last.s.Paths = <<"*.so">>
    /\ last.fs = [f \in DiskPaths |-> "plugin"]
    /\ Cardinality(ModuleProviders) = 2
    /\ \A i \in ModuleProviders : Batch[i].Group = "plugins" /\ Batch[i].Name = ""
    /\ Len(Batch) > 2

\* the element of S.Paths names no file of the file system: a well-formed
\* pattern, or a literal path, for which nothing exists
MatchesNothing(path) ==
    /\ ExpandEnv(path) # "["
    /\ ExpandEnv(path) = "*.so" => \A f \in DiskPaths : last.fs[f] = "absent"
    /\ ExpandEnv(path) \in DiskPaths => last.fs[ExpandEnv(path)] = "absent"

\* C30: in S.Provide an element of Paths whose expansion succeeds but matches
\* no path contributes nothing to the batch: no module is opened and neither
\* a registration nor a Fatal entry is emitted for it; a set whose elements
\* all match nothing yields the empty batch.
C30_NoMatchNoEntry ==
    IsSProvide =>
        /\ \A i \in 1..Len(last.s.Paths) :
              MatchesNothing(last.s.Paths[i]) => (SPart(i) = <<>> /\ SOpened(i) = <<>>)
        /\ (\A i \in 1..Len(last.s.Paths) : MatchesNothing(last.s.Paths[i])) =>
              /\ last.option = FxOptions(<<>>)
              /\ last.opened = <<>>

C30_Witness ==
    /\ IsSProvide
    /\ last.s.Paths = <<"p1.so", "*.so">>
    /\ last.fs = [f \in DiskPaths |-> "absent"]
    /\ last.s.Symbols.Names # <<>>
    /\ last.option = FxOptions(<<>>)
    /\ last.marks = <<0, 0>>

\* ---------------------------------------------------- symbols.go: EachSymbol
MaxVisits == 3    \* the longest list of names handed to EachSymbol

VisitNames == UNION {[1..k -> SymNames] : k \in 0..MaxVisits}

\* a SymbolVisitor: it returns an error of its own for the names in failOn
\* and, when failOnMissing is set, whenever it is passed a lookup error
Visitors == [failOn : SUBSET SymNames, failOnMissing : BOOLEAN]
VisitorError(n) == [type |-> "visitorError", Name |-> n]

\* sv(n, value, err), r being what Lookup(s, n) returned: the arguments the
\* visitor is called with
visitorCall(n, r) ==
    [name |-> n,
     value |-> IF r.err = NilErr THEN ValueOf(r.value) ELSE ZeroValue,
     lookupErr |-> r.err]

\* what the visitor sv returns for the call c
Visit(sv, c) ==
    IF c.name \in sv.failOn \/ (sv.failOnMissing /\ c.lookupErr # NilErr)
    THEN VisitorError(c.name)
    ELSE NilErr

RECURSIVE EachSymbolLoop(_, _, _, _, _, _)
RECURSIVE eachVisited(_, _, _, _, _, _)

\* the test of the visitor's result as it would be if a lookup error ended
\* the visitation
eachVisited_StopsOnLookupError(k, t, sv, names, i, visits) ==
    IF visits[Len(visits)].lookupErr # NilErr
    THEN [visits |-> visits, err |-> visits[Len(visits)].lookupErr]
    ELSE IF Visit(sv, visits[Len(visits)]) # NilErr
         THEN [visits |-> visits, err |-> Visit(sv, visits[Len(visits)])]
         ELSE EachSymbolLoop(k, t, sv, names, i + 1, visits)

\* if visitorErr := sv(n, value, err); visitorErr != nil { return visitorErr }
eachVisited(k, t, sv, names, i, visits) ==
    IF Visit(sv, visits[Len(visits)]) # NilErr
    THEN [visits |-> visits, err |-> Visit(sv, visits[Len(visits)])]
    ELSE EachSymbolLoop(k, t, sv, names, i + 1, visits)

\* the loop of EachSymbol; visits lists the calls of the visitor
EachSymbolLoop(k, t, sv, names, i, visits) ==
    IF i > Len(names)
    THEN [visits |-> visits, err |-> NilErr]
    ELSE eachVisited(k, t, sv, names, i,
             Append(visits, visitorCall(names[i], Lookup(k, t, names[i]))))

\* EachSymbol(s, sv, names...)
EachSymbol(k, t, sv, names) == EachSymbolLoop(k, t, sv, names, 1, <<>>)

DoEachSymbol(sv, names) ==
    /\ pc = "ready"
    /\ pc' = "done"
    /\ last' = [op |-> "EachSymbol", sv |-> sv, names |-> names]
                   @@ EachSymbol(kind, table, sv, names)
    /\ UNCHANGED <<kind, table>>

InitEach ==
    /\ kind \in {"SymbolMap", "plugin"}
    /\ table \in PluginTables
    /\ pc = "ready"
    /\ last = [op |-> "none"]

NextEach == \E sv \in Visitors, names \in VisitNames : DoEachSymbol(sv, names)

SpecEach == InitEach /\ [][NextEach]_vars

\* ------------------------------------------------------- EachSymbol claims
IsEachSymbol == last.op = "EachSymbol"

\* the positions of the list at which the visitor returns an error
Refused ==
    {i \in 1..Len(last.names) :
        \/ last.names[i] \in last.sv.failOn
        \/ last.sv.failOnMissing /\ ~Present(last.names[i])}
FirstRefused == CHOOSE i \in Refused : \A j \in Refused : i <= j

\* C27: EachSymbol calls the visitor once per name in the order of the names,
\* passing the lookup error for an absent name and going on after it; it
\* stops at the first name for which the visitor returns an error, returns
\* exactly that error and visits no later name; when the visitor returns no
\* error every name is visited and EachSymbol returns nil.
C27_VisitInOrderUntilRefused ==
    IsEachSymbol =>
        /\ Len(last.visits) = IF Refused = {} THEN Len(last.names) ELSE FirstRefused
        /\ last.err = IF Refused = {} THEN NilErr
                      ELSE VisitorError(last.names[FirstRefused])
        /\ \A i \in 1..Len(last.visits) :
              /\ last.visits[i].name = last.names[i]
              /\ Present(last.names[i]) <=> last.visits[i].lookupErr = NilErr
              /\ ~Present(last.names[i]) =>
                    /\ last.visits[i].lookupErr.type = "MissingSymbolError"
                    /\ last.visits[i].lookupErr.Name = last.names[i]
                    /\ ~last.visits[i].value.valid

C27_Witness ==
    /\ IsEachSymbol
    /\ last.names = <<"b", "a", "b">>
    /\ last.sv = [failOn |-> {"a"}, failOnMissing |-> FALSE]
    /\ Present("a")
    /\ Len(last.visits) = 2
    /\ last.visits[1].lookupErr.type = "MissingSymbolError"
    /\ last.err = VisitorError("a")

\* ------------------------------------------- sources that fail otherwise
SourceKinds == {"SymbolMap", "plugin", "failing"}

InitSources ==
    /\ kind \in SourceKinds
    /\ table \in PluginTables
    /\ pc = "ready"
    /\ last = [op |-> "none"]

NextSources ==
    \/ \E n \in SymNames : DoLookup(n)
    \/ \E l \in RequestLists, ign \in BOOLEAN : DoLoad(l, ign)
    \/ \E lc \in Lifecycles : DoLifecycleProvide(lc)

SpecSources == InitSources /\ [][NextSources]_vars

\* the Lookup of the source itself fails for the name n
SourceFails(n) == SourceLookup(kind, table, n).err # NilErr

\* C29: every non-nil error that the package-level Lookup returns is a
\* MissingSymbolError, whatever failure the source reported; so with
\* IgnoreMissing neither Symbols.Load nor Lifecycle.Provide emits a Fatal
\* entry for a failure of the source's Lookup, a failure that is not a
\* not-found condition included.
C29_EveryFailureIsMissing ==
    /\ (last.op = "Lookup" /\ last.err # NilErr) =>
          /\ IsMissingSymbolError(last.err)
          /\ SourceFails(last.name)
    /\ (IsLoad /\ last.IgnoreMissing) =>
          \A i \in 1..Len(last.names) :
              (IsSymbolRequest(last.names[i]) /\ SourceFails(RequestedName(last.names[i])))
                  => Part(i) = <<>>
    /\ (IsLifecycleProvide /\ last.lc.IgnoreMissing) =>
          \A i \in 1..2 :
              (SlotName(i) # "" /\ SourceFails(SlotName(i))) => SlotPart(i) = <<>>

C29_Witness ==
    /\ IsLoad
    /\ kind = "failing"
    /\ last.IgnoreMissing
    /\ last.names = <<NameReq("a"), OtherReq>>
    /\ Present("a")
    /\ SourceLookup(kind, table, "a").err = OtherError
    /\ Part(1) = <<>>
    /\ Len(last.batch) = 1

====
